---- MODULE Spec2Model ----
(***************************************************************************)
(* Model of the adjudicator rules engine: RulesGraph (types as nodes,      *)
(* rules and union memberships as edges, find_path) and RuleEngine (facts, *)
(* plan execution through the caching executor).                           *)
(***************************************************************************)
EXTENDS Bags, FiniteSets, Integers, Sequences, TLC

VARIABLES rules, unions, nodes, edges, facts, cache, lenient, debug, stack, scopes, source, last

graphVars == <<rules, unions, nodes, edges>>
engineVars == <<facts, cache, lenient, debug, stack, scopes, source>>
vars == <<rules, unions, nodes, edges, facts, cache, lenient, debug, stack, scopes, source, last>>

----------------------------------------------------------------------------
(* Types, rules and signatures *)

Types == {"str", "int", "bool", "float"}

\* class NoInputs: the node a rule without inputs hangs its edge on.
NoInputs == "NoInputs"

Rule(id, input_types, output_type) ==
    [id |-> id, input_types |-> input_types, output_type |-> output_type]

Signature(inputs, output_type) == [inputs |-> inputs, output_type |-> output_type]

\* The rules the callers of add_rules pass in.  r1, r2, r3 are the rules of
\* the diamond test, r0 has no inputs, r4 closes the cycle str -> int -> str
\* and r6 has two inputs.
r0 == Rule("r0", {}, "float")
r1 == Rule("r1", {"str"}, "int")
r2 == Rule("r2", {"bool"}, "int")
r3 == Rule("r3", {"str"}, "bool")
r4 == Rule("r4", {"int"}, "str")
r6 == Rule("r6", {"int", "bool"}, "float")

RulePool == {r0, r1, r2, r3, r4, r6}

\* The (union_type, member_type) pairs the callers of register_union_member
\* pass in.
UnionPool == {<<"float", "int">>, <<"int", "bool">>, <<"bool", "int">>}

MaxBatch == 2
MaxUnionEdges == 2

Batches == UNION {[1..n -> RulePool] : n \in 0..MaxBatch}

\* The signatures the callers of find_path pass in.
InputSets == SUBSET Types

Signatures == {Signature(i, o) : i \in InputSets, o \in Types}

\* An iteration order of the types: Python iterates a set in an order the
\* program does not control.  No rule of the pool has more than two inputs,
\* so an order and its reverse give every order of a set of missing inputs.
Orders == {<<"str", "int", "bool", "float">>, <<"float", "bool", "int", "str">>}

----------------------------------------------------------------------------
(* RulesGraph state *)

\* An edge of the MultiDiGraph with its data (Edge): parallel edges are kept,
\* so the edges are a bag.
RuleEdge(input_type, rule) ==
    [src |-> input_type, dst |-> rule.output_type, type |-> "rule", rule |-> rule]

UnionEdge(member_type, union_type) ==
    [src |-> member_type, dst |-> union_type, type |-> "union"]

EdgeSet == BagToSet(edges)

RegisteredRules == {rules[id] : id \in DOMAIN rules}

\* networkx is_directed_acyclic_graph on a graph with edge set es: no node
\* reaches itself along one or more edges.
RECURSIVE ReachFrom(_, _, _)
ReachFrom(es, frontier, seen) ==
    LET next == {e.dst : e \in {x \in es : x.src \in frontier}} \ seen
    IN IF next = {} THEN seen ELSE ReachFrom(es, next, seen \cup next)

is_directed_acyclic_graph(es) == \A e \in es : e.src \notin ReachFrom(es, {e.src}, {})

NoResult == [raised |-> "none", rules |-> {}, plan |-> <<>>, paths |-> {}]

\* The program is single-threaded: a call starts when no call is under way,
\* and its outcome stays in last until the caller has taken it.
NoCall == [op |-> "none", raised |-> "none"]

\* No graph has been handed to the constructor of another one.
NoSource == [made |-> FALSE, rules |-> <<>>, unions |-> [t \in Types |-> {}],
             nodes |-> {}, edges |-> EmptyBag]

Return ==
    /\ last # NoCall
    /\ last' = NoCall
    /\ UNCHANGED <<graphVars, engineVars>>

Raise(error) == [NoResult EXCEPT !.raised = error]

----------------------------------------------------------------------------
(* RulesGraph.add_rules *)

\* One iteration of the loop of add_rules on the graph g.
AddRule(g, rule) ==
    [rules |-> (rule.id :> rule) @@ g.rules,
     nodes |-> g.nodes \cup rule.input_types \cup {rule.output_type}
                 \cup (IF rule.input_types = {} THEN {NoInputs} ELSE {}),
     edges |-> g.edges (+) SetToBag({RuleEdge(input_type, rule) :
                 input_type \in (IF rule.input_types = {} THEN {NoInputs} ELSE rule.input_types)})]

\* The loop of add_rules from position i of the batch: it stops at the first
\* rule whose id is registered, with whatever the earlier iterations did.
RECURSIVE AddRulesLoop(_, _, _)
AddRulesLoop(g, batch, i) ==
    IF i > Len(batch) THEN [g |-> g, raised |-> "none"]
    ELSE IF batch[i].id \in DOMAIN g.rules THEN [g |-> g, raised |-> "ValueError: Duplicate rule ID"]
    ELSE AddRulesLoop(AddRule(g, batch[i]), batch, i + 1)

AddRulesOutcome(batch) ==
    LET loop == AddRulesLoop([rules |-> rules, nodes |-> nodes, edges |-> edges], batch, 1)
    IN [g |-> loop.g,
        raised |-> IF loop.raised # "none" THEN loop.raised
                   ELSE IF ~is_directed_acyclic_graph(BagToSet(loop.g.edges))
                        THEN "ValueError: Rules graph is not acyclic"
                        ELSE "none"]

add_rules(batch) ==
    LET out == AddRulesOutcome(batch)
    IN /\ last = NoCall
       /\ rules' = out.g.rules
       /\ nodes' = out.g.nodes
       /\ edges' = out.g.edges
       /\ UNCHANGED unions
       /\ last' = [NoResult EXCEPT !.raised = out.raised] @@ [op |-> "add_rules"]

----------------------------------------------------------------------------
(* RulesGraph.register_union_member *)

UnionEdgeCount == BagCardinality(edges) - Cardinality({e \in EdgeSet : e.type = "rule"})

register_union_member(union_type, member_type) ==
    /\ last = NoCall
    /\ UnionEdgeCount < MaxUnionEdges
    /\ unions' = [unions EXCEPT ![union_type] = @ \cup {member_type}]
    /\ nodes' = nodes \cup {union_type, member_type}
    /\ edges' = edges (+) SetToBag({UnionEdge(member_type, union_type)})
    /\ UNCHANGED rules
    /\ last' = NoResult @@ [op |-> "register_union_member"]

----------------------------------------------------------------------------
(* RulesGraph.get_rules_for_output_type and RulesGraph.find_path *)

\* A chain of nested calls longer than the number of nodes visits a node
\* twice and then never ends: Python stops it with RecursionError, which is
\* not a RuleResolveError.
RecursionLimit == Cardinality(Types) + 1

\* The errors the except clause of find_path catches.
RuleResolveError == {"NoMatchingRulesError", "MultipleMatchingRulesError"}

RECURSIVE GetRulesRec(_, _)
GetRulesRec(output_type, depth) ==
    IF depth > RecursionLimit THEN Raise("RecursionError")
    ELSE IF output_type \notin nodes THEN NoResult
    ELSE LET in_edges == {e \in EdgeSet : e.dst = output_type}
             direct == {e.rule : e \in {x \in in_edges : x.type = "rule"}}
             members == {GetRulesRec(e.src, depth + 1) : e \in {x \in in_edges : x.type = "union"}}
         IN IF \E m \in members : m.raised # "none" THEN Raise("RecursionError")
            ELSE [NoResult EXCEPT !.rules = direct \cup UNION {m.rules : m \in members}]

get_rules_for_output_type(output_type) == GetRulesRec(output_type, 0)

\* The inner loop of find_path: inner rules not yet in the list are appended.
\* A find_path that appends every inner rule, seen before or not.
AppendAll(acc, path, i) == acc \o path

RECURSIVE AppendNew(_, _, _)
AppendNew(acc, path, i) ==
    IF i > Len(path) THEN acc
    ELSE AppendNew(IF \E j \in DOMAIN acc : acc[j] = path[i] THEN acc ELSE Append(acc, path[i]),
                   path, i + 1)

\* The missing input types of a rule in the order the set is iterated.
MissingInputs(rule, sig, order) ==
    SelectSeq(order, LAMBDA t : t \in rule.input_types \ sig.inputs)

RECURSIVE FindPathRec(_, _, _)
RECURSIVE SatisfyMissing(_, _, _, _, _, _)

\* The try block of find_path for one rule, from position i of its missing
\* inputs: the first recursive call that raises ends it.
SatisfyMissing(missing, sig, order, depth, i, acc) ==
    IF i > Len(missing) THEN [NoResult EXCEPT !.plan = acc]
    ELSE LET inner == FindPathRec(Signature(sig.inputs, missing[i]), order, depth + 1)
         IN IF inner.raised # "none" THEN Raise(inner.raised)
            ELSE SatisfyMissing(missing, sig, order, depth, i + 1, AppendNew(acc, inner.plan, 1))

\* A find_path that does not refuse an ambiguity: it returns the rules of
\* all the competing plans.
RECURSIVE MergePaths(_, _)
MergePaths(paths, acc) ==
    IF paths = {} THEN acc
    ELSE LET path == CHOOSE p \in paths : TRUE
         IN MergePaths(paths \ {path}, AppendNew(acc, path, 1))

FindPathRecMerging(sig, order, depth) ==
    IF depth > RecursionLimit THEN Raise("RecursionError")
    ELSE LET candidates == get_rules_for_output_type(sig.output_type)
         IN IF candidates.raised # "none" THEN Raise(candidates.raised)
            ELSE LET tried == [rule \in candidates.rules |->
                                 SatisfyMissing(MissingInputs(rule, sig, order), sig, order, depth, 1, <<>>)]
                     results == {Append(tried[rule].plan, rule) :
                                   rule \in {c \in candidates.rules : tried[c].raised = "none"}}
                 IN IF \E rule \in candidates.rules : tried[rule].raised \notin RuleResolveError \cup {"none"}
                    THEN Raise("RecursionError")
                    ELSE IF Cardinality(results) = 0
                    THEN Raise("NoMatchingRulesError")
                    ELSE [NoResult EXCEPT !.plan = MergePaths(results, <<>>)]

FindPathRec(sig, order, depth) ==
    IF depth > RecursionLimit THEN Raise("RecursionError")
    ELSE LET candidates == get_rules_for_output_type(sig.output_type)
         IN IF candidates.raised # "none" THEN Raise(candidates.raised)
            ELSE LET tried == [rule \in candidates.rules |->
                                 SatisfyMissing(MissingInputs(rule, sig, order), sig, order, depth, 1, <<>>)]
                     results == {Append(tried[rule].plan, rule) :
                                   rule \in {c \in candidates.rules : tried[c].raised = "none"}}
                 IN IF \E rule \in candidates.rules : tried[rule].raised \notin RuleResolveError \cup {"none"}
                    THEN Raise("RecursionError")
                    ELSE IF Cardinality(results) > 1
                    THEN [Raise("MultipleMatchingRulesError") EXCEPT !.paths = results]
                    ELSE IF Cardinality(results) = 0
                    THEN Raise("NoMatchingRulesError")
                    ELSE [NoResult EXCEPT !.plan = CHOOSE path \in results : TRUE]

find_path(sig, order) == FindPathRec(sig, order, 0)

\* A caller calls find_path.
FindPathCall(sig, order) ==
    /\ last = NoCall
    /\ last' = find_path(sig, order) @@ [op |-> "find_path", sig |-> sig, order |-> order]
    /\ UNCHANGED graphVars

\* A caller calls get_rules_for_output_type.
GetRulesCall(output_type) ==
    /\ last = NoCall
    /\ last' = get_rules_for_output_type(output_type)
                 @@ [op |-> "get_rules_for_output_type", output_type |-> output_type]
    /\ UNCHANGED graphVars

----------------------------------------------------------------------------
(* The graph and its callers *)

\* RulesGraph.__init__ without rules, and the engine parts left alone.
Init ==
    /\ rules = <<>>
    /\ unions = [t \in Types |-> {}]
    /\ nodes = {}
    /\ edges = EmptyBag
    /\ facts = <<>>
    /\ cache = <<>>
    /\ lenient = FALSE
    /\ debug = TRUE
    /\ stack = <<>>
    /\ scopes = <<>>
    /\ source = NoSource
    /\ last = NoCall

Next ==
    \/ \E batch \in Batches : add_rules(batch) /\ UNCHANGED engineVars
    \/ \E pair \in UnionPool : register_union_member(pair[1], pair[2]) /\ UNCHANGED engineVars
    \/ \E sig \in Signatures, order \in Orders : FindPathCall(sig, order) /\ UNCHANGED engineVars
    \/ \E output_type \in Types : GetRulesCall(output_type) /\ UNCHANGED engineVars
    \/ Return

Spec == Init /\ [][Next]_vars

----------------------------------------------------------------------------
(* add_rules: rejected batches *)

\* C1: a call of add_rules that fails because the batch makes the graph
\* cyclic leaves the rules, the nodes and the edges as they were.
C1_CyclicBatchLeavesGraphUnchanged ==
    [][(last'.op = "add_rules" /\ last'.raised = "ValueError: Rules graph is not acyclic")
         => UNCHANGED graphVars]_vars

\* C2: a call of add_rules that fails on a duplicate rule id leaves the
\* rules, the nodes and the edges as they were.
C2_DuplicateIdLeavesGraphUnchanged ==
    [][(last'.op = "add_rules" /\ last'.raised = "ValueError: Duplicate rule ID")
         => UNCHANGED graphVars]_vars

----------------------------------------------------------------------------
(* find_path: what the claims speak about *)

\* The candidate rules of a signature and the outcome of the try block for
\* each of them, as the outermost call of find_path computes them.
Candidates(sig) == get_rules_for_output_type(sig.output_type).rules

Tried(rule, sig, order) == SatisfyMissing(MissingInputs(rule, sig, order), sig, order, 0, 1, <<>>)

CompletePlans(sig, order) ==
    {Append(Tried(rule, sig, order).plan, rule) :
       rule \in {c \in Candidates(sig) : Tried(c, sig, order).raised = "none"}}

\* The types that count as type_ through registered union membership: type_,
\* its members, the members of its members, ...
RECURSIVE MemberClosure(_, _)
MemberClosure(frontier, seen) ==
    LET next == (UNION {unions[t] : t \in frontier \cap Types}) \ seen
    IN IF next = {} THEN seen ELSE MemberClosure(next, seen \cup next)

CountsAs(type_) == MemberClosure({type_}, {type_})

Producers(type_) == {rule \in RegisteredRules : rule.output_type \in CountsAs(type_)}

\* The types that can be produced from the inputs by registered rules.
RECURSIVE Derivable(_)
Derivable(have) ==
    LET more == {t \in Types : \E rule \in Producers(t) : rule.input_types \subseteq have} \ have
    IN IF more = {} THEN have ELSE Derivable(have \cup more)

\* C3: when two or more candidates yield a complete plan, find_path fails
\* with MultipleMatchingRulesError and the error carries exactly those plans.
C3_TwoCompletePlansAreAmbiguous ==
    (last.op = "find_path" /\ Cardinality(CompletePlans(last.sig, last.order)) >= 2)
      => (last.raised = "MultipleMatchingRulesError"
          /\ last.paths = CompletePlans(last.sig, last.order))

\* C5: when the resolution of a missing input of a candidate is ambiguous,
\* find_path neither returns a plan nor reports that no rule matches.
C5_InnerAmbiguityIsSurfaced ==
    (last.op = "find_path"
       /\ \E rule \in Candidates(last.sig) :
            Tried(rule, last.sig, last.order).raised = "MultipleMatchingRulesError")
      => last.raised \notin {"none", "NoMatchingRulesError"}

\* C6: when no candidate of the output type can be completed from the
\* inputs of the signature, find_path fails with NoMatchingRulesError.
C6_NothingCompletableIsNoMatch ==
    (last.op = "find_path"
       /\ \A rule \in Producers(last.sig.output_type) :
            ~(rule.input_types \subseteq Derivable(last.sig.inputs)))
      => last.raised = "NoMatchingRulesError"

\* C7: get_rules_for_output_type returns the registered rules whose output
\* type is the type or counts as it through registered union membership.
C7_UnionTransparency ==
    last.op = "get_rules_for_output_type"
      => (last.raised = "none" /\ last.rules = Producers(last.output_type))

\* C8: a registered rule without inputs is among the rules of its output
\* type, and is the plan of its output type for every set of inputs when it
\* is the only candidate that can be resolved.
C8_RuleWithoutInputsIsAProducer ==
    \A rule \in {x \in RegisteredRules : x.input_types = {}} :
      /\ (last.op = "get_rules_for_output_type" /\ last.output_type = rule.output_type)
           => (last.raised = "none" /\ rule \in last.rules)
      /\ (last.op = "find_path" /\ last.sig.output_type = rule.output_type
            /\ \A other \in Producers(rule.output_type) \ {rule} :
                 ~(other.input_types \subseteq Derivable(last.sig.inputs)))
           => (last.raised = "none" /\ last.plan = <<rule>>)

\* The four statements above hold of every call that does not end in
\* RecursionError: they fail only where the graph has a cycle.
HoldsUnlessRecursionError ==
    last.raised # "RecursionError"
      => /\ C3_TwoCompletePlansAreAmbiguous
         /\ C6_NothingCompletableIsNoMatch
         /\ C7_UnionTransparency
         /\ C8_RuleWithoutInputsIsAProducer

----------------------------------------------------------------------------
(* Params, HashSupport, Cache and Executor *)

\* A value: its runtime type and its content.
NumValues == 3

Value(type_, v) == [type |-> type_, v |-> v]

\* Params: at most one value per type.
EmptyParams == <<>>

ParamsOr(a, b) == b @@ a

ParamsFilter(params, types) == [t \in DOMAIN params \cap types |-> params[t]]

ParamsMinus(params, types) == [t \in DOMAIN params \ types |-> params[t]]

\* The hash of a value and of a Params: distinct values can hash alike.
HashMod == 2

Hash(value) == value.v % HashMod

ParamsHash(params) == [t \in DOMAIN params |-> Hash(params[t])]

\* The body of a rule: a pure function of the inputs it is handed.
RECURSIVE SumOf(_, _)
SumOf(params, types) ==
    IF types = {} THEN 0
    ELSE LET t == CHOOSE x \in types : TRUE
         IN params[t].v + SumOf(params, types \ {t})

Body(rule, inputs) == Value(rule.output_type, (1 + SumOf(inputs, DOMAIN inputs)) % NumValues)

CacheKey(rule, inputs) == <<rule.id, ParamsHash(ParamsFilter(inputs, rule.input_types))>>

\* Executor.execute with the memory cache c: the cached value on a hit, the
\* body's value, stored, on a miss.
Execute(rule, inputs, c) ==
    LET key == CacheKey(rule, inputs)
    IN IF key \in DOMAIN c
       THEN [raised |-> "none", output |-> c[key], cache |-> c, ran |-> <<>>]
       ELSE IF ~lenient /\ ~(rule.input_types \subseteq DOMAIN inputs)
       THEN [raised |-> "KeyError", output |-> Value("NoneType", 0), cache |-> c,
             ran |-> <<rule.id>>]
       ELSE LET output == Body(rule, ParamsFilter(inputs, rule.input_types))
            IN [raised |-> "none", output |-> output, cache |-> (key :> output) @@ c,
                ran |-> <<rule.id>>]

----------------------------------------------------------------------------
(* RuleEngine *)

\* issubclass among the types of the tests: bool is a subclass of int.
IsSubclass(type_, base) == type_ = base \/ (type_ = "bool" /\ base = "int")

\* isinstance(output, output_type) follows the classes, not the registered
\* union members.
IsInstance(value, type_) == IsSubclass(value.type, type_)

NoGet == [raised |-> "none", value |-> Value("NoneType", 0), resolved |-> FALSE,
          sig |-> Signature({}, "NoneType"), executed |-> <<>>, handed |-> <<>>,
          outputs |-> <<>>, ran |-> <<>>]

\* A get that calls the body of each rule itself, not through the executor.
RECURSIVE ExecutePlanUncached(_, _, _, _, _)
ExecutePlanUncached(plan, i, params, c, acc) ==
    IF i > Len(plan) THEN [acc EXCEPT !.cache = c]
    ELSE LET rule == plan[i]
             inputs == ParamsOr(ParamsFilter(facts, rule.input_types),
                                ParamsFilter(params, rule.input_types))
             output == Body(rule, inputs)
         IN ExecutePlanUncached(plan, i + 1,
                                ParamsOr(params, (rule.output_type :> output)),
                                c,
                                [acc EXCEPT !.value = output,
                                            !.executed = Append(@, rule.id),
                                            !.handed = Append(@, inputs),
                                            !.outputs = Append(@, output),
                                            !.ran = Append(@, rule.id)])

\* A get whose fold keeps the value the params already hold for a type.
RECURSIVE ExecutePlanKeepsPrior(_, _, _, _, _)
ExecutePlanKeepsPrior(plan, i, params, c, acc) ==
    IF i > Len(plan) THEN [acc EXCEPT !.cache = c]
    ELSE LET rule == plan[i]
             inputs == ParamsOr(ParamsFilter(facts, rule.input_types),
                                ParamsFilter(params, rule.input_types))
             done == Execute(rule, inputs, c)
         IN IF done.raised # "none"
            THEN [acc EXCEPT !.raised = done.raised,
                             !.executed = Append(@, rule.id),
                             !.handed = Append(@, inputs),
                             !.ran = @ \o done.ran,
                             !.cache = c]
            ELSE ExecutePlanKeepsPrior(plan, i + 1,
                                       ParamsOr((rule.output_type :> done.output), params),
                                       done.cache,
                                       [acc EXCEPT !.value = done.output,
                                                   !.executed = Append(@, rule.id),
                                                   !.handed = Append(@, inputs),
                                                   !.outputs = Append(@, done.output),
                                                   !.ran = @ \o done.ran])

\* The loop of get over the plan from position i: each rule is executed on
\* the facts and params filtered to its input types and its output is folded
\* into the params.
RECURSIVE ExecutePlan(_, _, _, _, _)
ExecutePlan(plan, i, params, c, acc) ==
    IF i > Len(plan) THEN [acc EXCEPT !.cache = c]
    ELSE LET rule == plan[i]
             inputs == ParamsOr(ParamsFilter(facts, rule.input_types),
                                ParamsFilter(params, rule.input_types))
             done == Execute(rule, inputs, c)
         IN IF done.raised # "none"
            THEN [acc EXCEPT !.raised = done.raised,
                             !.executed = Append(@, rule.id),
                             !.handed = Append(@, inputs),
                             !.ran = @ \o done.ran,
                             !.cache = c]
            ELSE ExecutePlan(plan, i + 1,
                             ParamsOr(params, (rule.output_type :> done.output)),
                             done.cache,
                             [acc EXCEPT !.value = done.output,
                                         !.executed = Append(@, rule.id),
                                         !.handed = Append(@, inputs),
                                         !.outputs = Append(@, done.output),
                                         !.ran = @ \o done.ran])

\* A get without the fast path: it resolves every request through the graph.
GetOutcomeAlwaysResolves(output_type, params, order, c) ==
    LET sig == Signature(DOMAIN params \cup DOMAIN facts, output_type)
        path == find_path(sig, order)
    IN IF path.raised # "none"
       THEN [NoGet EXCEPT !.raised = path.raised, !.resolved = TRUE, !.sig = sig] @@ [cache |-> c]
       ELSE LET run == ExecutePlan(path.plan, 1, params, c,
                                   [NoGet EXCEPT !.resolved = TRUE, !.sig = sig] @@ [cache |-> c])
            IN IF run.raised # "none" \/ ~debug \/ IsInstance(run.value, output_type) THEN run
               ELSE [run EXCEPT !.raised = "AssertionError"]

\* RuleEngine.get with the executor's cache c: its result and the cache it
\* leaves.
GetOutcome(output_type, params, order, c) ==
    IF params = EmptyParams /\ output_type \in DOMAIN facts
    THEN [NoGet EXCEPT !.value = facts[output_type]] @@ [cache |-> c]
    ELSE LET sig == Signature(DOMAIN params \cup DOMAIN facts, output_type)
             path == find_path(sig, order)
         IN IF path.raised # "none"
            THEN [NoGet EXCEPT !.raised = path.raised, !.resolved = TRUE, !.sig = sig] @@ [cache |-> c]
            ELSE LET run == ExecutePlan(path.plan, 1, params, c,
                                        [NoGet EXCEPT !.resolved = TRUE, !.sig = sig] @@ [cache |-> c])
                 IN IF run.raised # "none" \/ ~debug \/ IsInstance(run.value, output_type)
                    THEN run
                    ELSE [run EXCEPT !.raised = "AssertionError"]

\* What the caller of get sees, and what the call did.
GetRecord(out) ==
    [raised |-> out.raised, value |-> out.value, resolved |-> out.resolved,
     sig |-> out.sig, executed |-> out.executed, handed |-> out.handed,
     outputs |-> out.outputs, ran |-> out.ran]

\* A get that keeps the output of the plan it ran as a fact of the engine.
GetKeepingOutput(output_type, params, order) ==
    LET out == GetOutcome(output_type, params, order, cache)
    IN /\ last = NoCall
       /\ cache' = out.cache
       /\ facts' = IF out.raised = "none" /\ out.executed # <<>>
                   THEN ParamsOr(facts, (out.value.type :> out.value))
                   ELSE facts
       /\ last' = GetRecord(out) @@ [op |-> "get", output_type |-> output_type,
                                      params |-> params, order |-> order]
       /\ UNCHANGED <<graphVars, lenient, debug, stack, scopes, source>>

get(output_type, params, order) ==
    LET out == GetOutcome(output_type, params, order, cache)
    IN /\ last = NoCall
       /\ cache' = out.cache
       /\ last' = GetRecord(out) @@ [op |-> "get", output_type |-> output_type,
                                      params |-> params, order |-> order]
       /\ UNCHANGED <<graphVars, facts, lenient, debug, stack, scopes, source>>

\* The script that asks the engine for the same output twice, with params
\* that are equal by hash; an error of the first get ends the script.
GetTwice(output_type, params, again, order) ==
    LET first == GetOutcome(output_type, params, order, cache)
        second == IF first.raised = "none"
                  THEN GetOutcome(output_type, again, order, first.cache)
                  ELSE NoGet @@ [cache |-> first.cache]
    IN /\ last = NoCall
       /\ ParamsHash(again) = ParamsHash(params)
       /\ cache' = second.cache
       /\ last' = [op |-> "get_twice", output_type |-> output_type,
                   params |-> params, again |-> again,
                   first |-> GetRecord(first), second |-> GetRecord(second)]
       /\ UNCHANGED <<graphVars, facts, lenient, debug, stack, scopes, source>>

\* An assert_facts that rejects only a fact that differs from the stored one.
AssertFactsRaisesOnConflict(new) ==
    \E t \in DOMAIN facts \cap DOMAIN new : new[t] # facts[t]

AssertFactsRaises(new) == DOMAIN facts \cap DOMAIN new # {}

assert_facts(new) ==
    /\ last = NoCall
    /\ facts' = IF AssertFactsRaises(new) THEN facts ELSE ParamsOr(facts, new)
    /\ last' = [op |-> "assert_facts", given |-> new,
                raised |-> IF AssertFactsRaises(new) THEN "ValueError" ELSE "none"]
    /\ UNCHANGED <<graphVars, cache, lenient, debug, stack, scopes, source>>

\* A retract_facts that looks only for the types, not at the values.
RetractFactsRaisesOnMissing(old) == DOMAIN old \ DOMAIN facts # {}

RetractFactsRaises(old) ==
    \/ DOMAIN old \ DOMAIN facts # {}
    \/ \E t \in DOMAIN old : old[t] # facts[t]

retract_facts(old) ==
    /\ last = NoCall
    /\ facts' = IF RetractFactsRaises(old) THEN facts ELSE ParamsMinus(facts, DOMAIN old)
    /\ last' = [op |-> "retract_facts", given |-> old,
                raised |-> IF RetractFactsRaises(old) THEN "ValueError" ELSE "none"]
    /\ UNCHANGED <<graphVars, cache, lenient, debug, stack, scopes, source>>

\* RuleEngine.add_rules hands the rules to its graph.
engine_add_rules(batch) == add_rules(batch) /\ UNCHANGED engineVars

\* The rules, params and facts the callers of the engine pass in.
EnginePool == {r1, r2, r3}

EngineBatches == {batch \in Batches : \A i \in DOMAIN batch : batch[i] \in EnginePool}

ParamsPool == {EmptyParams,
               ("str" :> Value("str", 0)),
               ("str" :> Value("str", 2)),
               ("bool" :> Value("bool", 1))}

FactsPool == {("int" :> Value("int", 1)),
              ("str" :> Value("str", 1)),
              ("str" :> Value("str", 2)) @@ ("int" :> Value("int", 1))}

\* RuleEngine.__init__ without rules and facts, with the default executor.
\* The interpreter runs with __debug__ true, or false under -O, where it
\* does not execute assert statements. Without union members every rule is
\* handed a value for each of its input types, so what a body does with a
\* bundle that lacks one does not show.
InitEngine ==
    /\ rules = <<>>
    /\ unions = [t \in Types |-> {}]
    /\ nodes = {}
    /\ edges = EmptyBag
    /\ facts = <<>>
    /\ cache = <<>>
    /\ lenient = FALSE
    /\ debug \in BOOLEAN
    /\ stack = <<>>
    /\ scopes = <<>>
    /\ source = NoSource
    /\ last = NoCall

NextEngine ==
    \/ \E batch \in EngineBatches : engine_add_rules(batch)
    \/ \E new \in FactsPool : assert_facts(new)
    \/ \E old \in FactsPool : retract_facts(old)
    \/ \E output_type \in Types, params \in ParamsPool, order \in Orders :
         get(output_type, params, order)
    \/ \E output_type \in Types, params \in ParamsPool, again \in ParamsPool, order \in Orders :
         GetTwice(output_type, params, again, order)
    \/ Return

SpecEngine == InitEngine /\ [][NextEngine]_vars

\* An engine whose graph has union members: the rules, union members, params
\* and facts its callers pass in.
UnionEnginePool == {r2, r3, r6}

UnionEngineBatches == {batch \in Batches : \A i \in DOMAIN batch : batch[i] \in UnionEnginePool}

EngineUnionPool == {<<"int", "bool">>, <<"float", "int">>}

UnionParamsPool == {EmptyParams,
                    ("str" :> Value("str", 2)),
                    ("bool" :> Value("bool", 1)),
                    ("str" :> Value("str", 2)) @@ ("bool" :> Value("bool", 1))}

UnionFactsPool == {("bool" :> Value("bool", 1))}

NextUnions ==
    \/ \E batch \in UnionEngineBatches : engine_add_rules(batch)
    \/ \E pair \in EngineUnionPool :
         register_union_member(pair[1], pair[2]) /\ UNCHANGED engineVars
    \/ \E new \in UnionFactsPool : assert_facts(new)
    \/ \E old \in UnionFactsPool : retract_facts(old)
    \/ \E output_type \in Types, params \in UnionParamsPool, order \in Orders :
         get(output_type, params, order)
    \/ Return

\* The bodies of the rules are the application's: they raise or carry on
\* when they are handed a bundle that lacks one of their input types.
InitUnions ==
    /\ rules = <<>>
    /\ unions = [t \in Types |-> {}]
    /\ nodes = {}
    /\ edges = EmptyBag
    /\ facts = <<>>
    /\ cache = <<>>
    /\ lenient \in BOOLEAN
    /\ debug \in BOOLEAN
    /\ stack = <<>>
    /\ scopes = <<>>
    /\ source = NoSource
    /\ last = NoCall

SpecUnions == InitUnions /\ [][NextUnions]_vars

----------------------------------------------------------------------------
(* RuleEngine.get: caching and the facts fast path *)

Occurrences(id, seq) == Cardinality({i \in DOMAIN seq : seq[i] = id})

\* C9: when get has returned a value and is called again with the same
\* output type and params equal by hash, rules and facts unchanged, it
\* returns an equal value, and no rule body runs more than once over the two
\* calls.
C9_SecondGetIsServedFromCache ==
    (last.op = "get_twice" /\ last.first.raised = "none")
      => /\ last.second.raised = "none"
         /\ last.second.value = last.first.value
         /\ \A id \in DOMAIN rules :
              Occurrences(id, last.first.ran) + Occurrences(id, last.second.ran) <= 1

\* The first get ran r3 and r2; the second, with params that are equal by
\* hash only, executed the same plan from the cache without running a body.
C9_Witness ==
    /\ last.op = "get_twice"
    /\ last.again # last.params
    /\ last.first.executed = <<"r3", "r2">>
    /\ last.first.ran = <<"r3", "r2">>
    /\ last.second.executed = <<"r3", "r2">>
    /\ last.second.ran = <<>>

\* C10: get of a type that has a fact, with empty params, returns the fact
\* and neither resolves through the graph nor executes a rule.
C10_FactsFastPath ==
    (last.op = "get" /\ last.params = EmptyParams /\ last.output_type \in DOMAIN facts)
      => /\ last.raised = "none"
         /\ last.value = facts[last.output_type]
         /\ ~last.resolved
         /\ last.executed = <<>>
         /\ last.ran = <<>>

\* get has returned the fact of type int although r1 could produce an int
\* from the fact of type str.
C10_Witness ==
    /\ last.op = "get"
    /\ last.params = EmptyParams
    /\ last.output_type = "int"
    /\ {"int", "str"} \subseteq DOMAIN facts
    /\ "r1" \in DOMAIN rules
    /\ last.value = facts["int"]

----------------------------------------------------------------------------
(* RuleEngine.get: facts and call-site params *)

\* C11: get of a type F that has a fact, with params that hold a different
\* value of type F, returns the value the params hold: not the fact and not
\* an error.
C11_SuppliedValueIsReturned ==
    (/\ last.op = "get"
     /\ last.output_type \in DOMAIN facts \cap DOMAIN last.params
     /\ last.params[last.output_type] # facts[last.output_type])
      => /\ last.raised = "none"
         /\ last.value = last.params[last.output_type]

\* C12: the signature get resolves has the types of the params and of the
\* facts as inputs, and every rule the call executes is handed, for each of
\* its input types, the value of the call-site params when they hold the
\* type and the fact otherwise.
C12_ParamsOverrideFacts ==
    (last.op = "get" /\ last.resolved)
      => /\ last.sig = Signature(DOMAIN last.params \cup DOMAIN facts, last.output_type)
         /\ \A i \in DOMAIN last.executed :
              \A t \in rules[last.executed[i]].input_types :
                /\ t \in DOMAIN last.params
                     => (t \in DOMAIN last.handed[i] /\ last.handed[i][t] = last.params[t])
                /\ (t \notin DOMAIN last.params /\ t \in DOMAIN facts)
                     => (t \in DOMAIN last.handed[i] /\ last.handed[i][t] = facts[t])

----------------------------------------------------------------------------
(* RuleEngine.assert_facts and retract_facts *)

\* C13: assert_facts is rejected whenever a type of the given mapping has a
\* fact already, and a rejected call adds nothing; no step replaces the value
\* stored for a fact type by another value.
C13_FactsAreAssertedOnce ==
    [][/\ (last'.op = "assert_facts" /\ DOMAIN facts \cap DOMAIN last'.given # {})
           => (last'.raised = "ValueError" /\ facts' = facts)
       /\ \A t \in DOMAIN facts \cap DOMAIN facts' : facts'[t] = facts[t]]_vars

\* A rejected assert_facts whose mapping also held a type without a fact.
C13_Witness ==
    /\ last.op = "assert_facts"
    /\ last.raised = "ValueError"
    /\ DOMAIN last.given \ DOMAIN facts # {}

\* C14: retract_facts is rejected when a type of the given mapping has no
\* fact or a given value differs from the stored fact, and a rejected call
\* removes nothing; an accepted call removes the facts of the given types
\* and no other.
C14_RetractNeedsTheStoredValue ==
    [][last'.op = "retract_facts"
         => IF \/ DOMAIN last'.given \ DOMAIN facts # {}
               \/ \E t \in DOMAIN last'.given \cap DOMAIN facts : last'.given[t] # facts[t]
            THEN last'.raised = "ValueError" /\ facts' = facts
            ELSE /\ last'.raised = "none"
                 /\ DOMAIN facts' = DOMAIN facts \ DOMAIN last'.given
                 /\ \A t \in DOMAIN facts' : facts'[t] = facts[t]]_vars

\* A rejected retract_facts one of whose facts matched the stored one.
C14_Witness ==
    /\ last.op = "retract_facts"
    /\ last.raised = "ValueError"
    /\ \E t \in DOMAIN last.given \cap DOMAIN facts : last.given[t] = facts[t]
    /\ \E t \in DOMAIN last.given \cap DOMAIN facts : last.given[t] # facts[t]

----------------------------------------------------------------------------
(* The current engine: as_current, current and the free get *)

\* Two engines: e1 = RuleEngine([r3, r2]), whose graph, facts and cache are
\* the variables of this module, and e2 = RuleEngine(), which has no rules
\* and no facts.
Engines == {"e1", "e2"}

MaxDepth == 3

\* with engine.as_current(): the scope is entered.
Enter(engine) ==
    /\ last = NoCall
    /\ Len(stack) < MaxDepth
    /\ stack' = Append(stack, engine)
    /\ scopes' = Append(scopes, engine)
    /\ last' = [op |-> "as_current", raised |-> "none", engine |-> engine]
    /\ UNCHANGED <<graphVars, facts, cache, lenient, debug, source>>

\* The innermost scope is left, at the end of its body or by an error the
\* body raised: the finally clause runs its assert statement, which pops.
Leave(error) ==
    LET self == scopes[Len(scopes)]
        popped == stack[Len(stack)]
    IN /\ last = NoCall
       /\ scopes # <<>>
       /\ scopes' = SubSeq(scopes, 1, Len(scopes) - 1)
       /\ stack' = IF debug /\ stack # <<>> THEN SubSeq(stack, 1, Len(stack) - 1) ELSE stack
       /\ last' = [op |-> "leave",
                   raised |-> IF ~debug THEN error
                              ELSE IF stack = <<>> THEN "IndexError"
                              ELSE IF popped # self THEN "AssertionError"
                              ELSE error]
       /\ UNCHANGED <<graphVars, facts, cache, lenient, debug, source>>

\* RuleEngine.current()
current ==
    /\ last = NoCall
    /\ last' = IF stack # <<>>
               THEN [op |-> "current", raised |-> "none", engine |-> stack[Len(stack)]]
               ELSE [op |-> "current", raised |-> "RuntimeError", engine |-> "none"]
    /\ UNCHANGED <<graphVars, engineVars>>

\* get of an engine without rules and facts: nothing produces the type.
GetOutcomeWithoutRules(output_type, params, c) ==
    [NoGet EXCEPT !.raised = "NoMatchingRulesError", !.resolved = TRUE,
                  !.sig = Signature(DOMAIN params, output_type)] @@ [cache |-> c]

\* The free get: engine = RuleEngine.current(), then engine.get.
free_get(output_type, params, order) ==
    LET engine == stack[Len(stack)]
        out == IF engine = "e1" THEN GetOutcome(output_type, params, order, cache)
               ELSE GetOutcomeWithoutRules(output_type, params, cache)
    IN /\ last = NoCall
       /\ IF stack = <<>>
          THEN /\ last' = [op |-> "free_get", raised |-> "RuntimeError", engine |-> "none"]
               /\ cache' = cache
          ELSE /\ last' = GetRecord(out) @@ [op |-> "free_get", engine |-> engine,
                                             output_type |-> output_type, params |-> params]
               /\ cache' = out.cache
       /\ UNCHANGED <<graphVars, facts, lenient, debug, stack, scopes, source>>

InitCurrent ==
    LET g == AddRulesLoop([rules |-> <<>>, nodes |-> {}, edges |-> EmptyBag], <<r3, r2>>, 1).g
    IN /\ rules = g.rules
       /\ unions = [t \in Types |-> {}]
       /\ nodes = g.nodes
       /\ edges = g.edges
       /\ facts = <<>>
       /\ cache = <<>>
       /\ lenient = FALSE
       /\ debug \in BOOLEAN
       /\ stack = <<>>
       /\ scopes = <<>>
       /\ source = NoSource
       /\ last = NoCall

NextCurrent ==
    \/ \E engine \in Engines : Enter(engine)
    \/ \E error \in {"none", "Exception"} : Leave(error)
    \/ current
    \/ \E output_type \in {"int", "float"}, params \in ParamsPool, order \in Orders :
         free_get(output_type, params, order)
    \/ Return

SpecCurrent == InitCurrent /\ [][NextCurrent]_vars

\* C15: when every scope that was entered has been left, at the end of its
\* body or by an error, the stack is what it was before the first entry;
\* current and the free get use the engine of the innermost open scope and
\* fail when no scope is open.
C15_CurrentEngineStackDiscipline ==
    /\ scopes = <<>> => stack = <<>>
    /\ last.op \in {"current", "free_get"}
         => IF scopes = <<>> THEN last.raised = "RuntimeError"
            ELSE last.raised # "RuntimeError" /\ last.engine = scopes[Len(scopes)]

\* With assert statements executed the stack is the sequence of the open
\* scopes, and the statement above holds.
StackDisciplineUnlessOptimized ==
    debug => (stack = scopes /\ C15_CurrentEngineStackDiscipline)

----------------------------------------------------------------------------
(* RuleEngine.get: the result and the execution of the plan *)

\* C16: a get returns a value that is an instance of the requested type or
\* fails: when the last rule of the plan yields a value of another type the
\* call fails with AssertionError, and an error of find_path is the error of
\* the call.
C16_GetReturnsInstanceOrFails ==
    last.op = "get"
      => /\ last.raised = "none" => IsInstance(last.value, last.output_type)
         /\ (/\ last.resolved
             /\ Len(last.outputs) >= 1
             /\ Len(last.outputs) = Len(find_path(last.sig, last.order).plan)
             /\ ~IsInstance(last.outputs[Len(last.outputs)], last.output_type))
              => last.raised = "AssertionError"
         /\ (last.resolved /\ find_path(last.sig, last.order).raised # "none")
              => last.raised = find_path(last.sig, last.order).raised

\* With assert statements executed the statement above holds.
InstanceOrFailsUnlessOptimized == debug => C16_GetReturnsInstanceOrFails

\* The assert statement after the loop has failed a get.
AssertionHasFailedAGet == last.op = "get" /\ last.raised = "AssertionError"

\* The position of the last rule before position j of the executed rules
\* that produces the type t, 0 when there is none.
LastProducerBefore(t, j) ==
    LET before == {i \in 1..(j - 1) : rules[last'.executed[i]].output_type = t}
    IN IF before = {} THEN 0 ELSE CHOOSE i \in before : \A k \in before : k <= i

\* C18: a get whose loop runs to its end executes the rules of the resolved
\* plan in plan order, each once; a rule whose input type is the output type
\* of an earlier rule of the plan is handed the output of that rule, not a
\* call-site param or fact of the type; the fact store is left as it was.
C18_PlanRunsInOrderAndFolds ==
    [][(last'.op = "get" /\ last'.resolved /\ last'.raised \in {"none", "AssertionError"})
         => /\ LET plan == find_path(last'.sig, last'.order).plan
               IN last'.executed = [i \in DOMAIN plan |-> plan[i].id]
            /\ \A j \in DOMAIN last'.executed :
                 \A t \in rules[last'.executed[j]].input_types :
                   LastProducerBefore(t, j) # 0
                     => /\ t \in DOMAIN last'.handed[j]
                        /\ last'.handed[j][t] = last'.outputs[LastProducerBefore(t, j)]
            /\ facts' = facts]_vars

\* r6 was handed the bool that r3 had just produced, not the bool of the
\* call-site params.
C18_Witness ==
    /\ last.op = "get"
    /\ last.raised = "none"
    /\ last.executed = <<"r3", "r6">>
    /\ "bool" \in DOMAIN last.params
    /\ last.handed[2]["bool"] = last.outputs[1]
    /\ last.outputs[1] # last.params["bool"]

----------------------------------------------------------------------------
(* The graph: acyclicity, plans and termination *)

\* C17: in every state reached by add_rules calls, accepted or rejected, and
\* register_union_member calls, the graph of rule edges and union edges is
\* acyclic.
C17_GraphStaysAcyclic == is_directed_acyclic_graph(EdgeSet)

\* C19: a plan returned by find_path never holds two distinct rules with the
\* same output type.
C19_PlanHasOneRulePerOutputType ==
    (last.op = "find_path" /\ last.raised = "none")
      => \A i, j \in DOMAIN last.plan :
           last.plan[i].output_type = last.plan[j].output_type => last.plan[i] = last.plan[j]

\* On an acyclic graph find_path has returned a plan of two rules or more
\* while the graph holds another rule that produces the output type of one
\* of them.
C19_Witness ==
    /\ is_directed_acyclic_graph(EdgeSet)
    /\ last.op = "find_path"
    /\ last.raised = "none"
    /\ Len(last.plan) >= 2
    /\ \E i \in DOMAIN last.plan : \E rule \in RegisteredRules :
         /\ rule.output_type = last.plan[i].output_type
         /\ \A j \in DOMAIN last.plan : last.plan[j] # rule

\* C20: find_path and get_rules_for_output_type terminate on every reachable
\* graph: they return a result or raise a resolve error.
C20_ResolutionTerminates ==
    last.op \in {"find_path", "get_rules_for_output_type"}
      => last.raised \in {"none"} \cup RuleResolveError

\* On an acyclic graph both recursions end.
TerminatesOnAcyclicGraphs ==
    is_directed_acyclic_graph(EdgeSet) => C20_ResolutionTerminates

----------------------------------------------------------------------------
(* Resolution and the state it leaves alone *)

\* The engine e1 = RuleEngine([r3, r2]) and its callers: they assert and
\* retract facts, enter and leave its scope, and resolve through the engine,
\* through the free get and through the graph of the engine.
NextResolution ==
    \/ \E new \in FactsPool : assert_facts(new)
    \/ \E old \in FactsPool : retract_facts(old)
    \/ Enter("e1")
    \/ \E error \in {"none", "Exception"} : Leave(error)
    \/ \E output_type \in Types, params \in ParamsPool, order \in Orders :
         get(output_type, params, order)
    \/ \E output_type \in Types, params \in ParamsPool, order \in Orders :
         free_get(output_type, params, order)
    \/ \E sig \in Signatures, order \in Orders : FindPathCall(sig, order) /\ UNCHANGED engineVars
    \/ \E output_type \in Types : GetRulesCall(output_type) /\ UNCHANGED engineVars
    \/ Return

SpecResolution == InitCurrent /\ [][NextResolution]_vars

Resolutions == {"get", "free_get", "find_path", "get_rules_for_output_type"}

\* C21: a get, whether it returns or raises, leaves the facts of the engine,
\* its graph (rules, nodes, edges, union members) and the stack of current
\* engines as they were; find_path and get_rules_for_output_type leave the
\* graph as it was.
C21_ResolutionIsReadOnly ==
    [][last'.op \in Resolutions => UNCHANGED <<rules, unions, nodes, edges, facts, stack>>]_vars

\* A get inside a scope of the engine, with a fact and a rule in place, has
\* run a rule and stored its output in the cache.
C21_Witness ==
    /\ last.op = "get"
    /\ last.raised = "none"
    /\ last.ran # <<>>
    /\ facts # <<>>
    /\ stack # <<>>
    /\ cache # <<>>

----------------------------------------------------------------------------
(* find_path and the order in which sets are iterated *)

RulesOf(plan) == {plan[i] : i \in DOMAIN plan}

\* Two outcomes of find_path are of the same kind, and two plans have the
\* same rules and the same last rule.
SameOutcome(a, b) ==
    /\ a.raised = b.raised
    /\ a.raised = "none" => /\ RulesOf(a.plan) = RulesOf(b.plan)
                            /\ a.plan[Len(a.plan)] = b.plan[Len(b.plan)]

\* C22: for a graph and a signature, find_path gives the same kind of
\* outcome (a plan, NoMatchingRulesError or MultipleMatchingRulesError) in
\* every order of iteration, and the plans it returns have the same rules
\* and end with the same rule.
C22_FindPathIgnoresIterationOrder ==
    last.op = "find_path"
      => \A order \in Orders : SameOutcome(last, find_path(last.sig, order))

\* On an acyclic graph the statement above holds.
OrderIsIgnoredOnAcyclicGraphs ==
    is_directed_acyclic_graph(EdgeSet) => C22_FindPathIgnoresIterationOrder

\* Two orders of iteration have given two plans that differ.
PlansDifferByOrder ==
    /\ last.op = "find_path"
    /\ last.raised = "none"
    /\ \E order \in Orders : find_path(last.sig, order).plan # last.plan

----------------------------------------------------------------------------
(* A RuleGraph constructed from another RuleGraph *)

\* list(rules._rules.values()): the rules of the graph handed in. Their ids
\* differ, so the order of the list does not show in the graph built from it.
RECURSIVE ListOf(_)
ListOf(rs) ==
    IF rs = {} THEN <<>>
    ELSE LET rule == CHOOSE r \in rs : TRUE
         IN <<rule>> \o ListOf(rs \ {rule})

\* RulesGraph.__init__ on a RulesGraph: empty _rules, _unions and _graph,
\* then add_rules on the rules of the graph handed in.
RulesGraphFrom(rs) ==
    LET loop == AddRulesLoop([rules |-> <<>>, nodes |-> {}, edges |-> EmptyBag], ListOf(rs), 1)
    IN [g |-> [rules |-> loop.g.rules, unions |-> [t \in Types |-> {}],
               nodes |-> loop.g.nodes, edges |-> loop.g.edges],
        raised |-> IF loop.raised # "none" THEN loop.raised
                   ELSE IF ~is_directed_acyclic_graph(BagToSet(loop.g.edges))
                        THEN "ValueError: Rules graph is not acyclic"
                        ELSE "none"]

\* RuleEngine(engine.graph): the new engine's graph is RuleGraph(graph); the
\* graph handed in lives on as source. A constructor that raises leaves no
\* new graph.
SeedEngine ==
    LET out == RulesGraphFrom(RegisteredRules)
    IN /\ last = NoCall
       /\ ~source.made
       /\ last' = [op |-> "RuleGraph", raised |-> out.raised]
       /\ IF out.raised # "none"
          THEN UNCHANGED <<graphVars, source>>
          ELSE /\ source' = [made |-> TRUE, rules |-> rules, unions |-> unions,
                             nodes |-> nodes, edges |-> edges]
               /\ rules' = out.g.rules
               /\ unions' = out.g.unions
               /\ nodes' = out.g.nodes
               /\ edges' = out.g.edges
       /\ UNCHANGED <<facts, cache, lenient, debug, stack, scopes>>

\* add_rules on the graph that was handed in.
source_add_rules(batch) ==
    LET loop == AddRulesLoop([rules |-> source.rules, nodes |-> source.nodes,
                              edges |-> source.edges], batch, 1)
        raised == IF loop.raised # "none" THEN loop.raised
                  ELSE IF ~is_directed_acyclic_graph(BagToSet(loop.g.edges))
                       THEN "ValueError: Rules graph is not acyclic"
                       ELSE "none"
    IN /\ last = NoCall
       /\ source.made
       /\ source' = [source EXCEPT !.rules = loop.g.rules, !.nodes = loop.g.nodes,
                                   !.edges = loop.g.edges]
       /\ last' = [op |-> "source.add_rules", raised |-> raised]
       /\ UNCHANGED <<graphVars, facts, cache, lenient, debug, stack, scopes>>

\* register_union_member on the graph that was handed in.
source_register_union_member(union_type, member_type) ==
    /\ last = NoCall
    /\ source.made
    /\ BagCardinality(source.edges)
         - Cardinality({e \in BagToSet(source.edges) : e.type = "rule"}) < MaxUnionEdges
    /\ source' = [source EXCEPT !.unions[union_type] = @ \cup {member_type},
                                !.nodes = @ \cup {union_type, member_type},
                                !.edges = @ (+) SetToBag({UnionEdge(member_type, union_type)})]
    /\ last' = [op |-> "source.register_union_member", raised |-> "none"]
    /\ UNCHANGED <<graphVars, facts, cache, lenient, debug, stack, scopes>>

SeedPool == {r1, r3, r4}

SeedBatches == {batch \in Batches : \A i \in DOMAIN batch : batch[i] \in SeedPool}

NextSeed ==
    \/ \E batch \in SeedBatches : engine_add_rules(batch)
    \/ \E pair \in EngineUnionPool :
         register_union_member(pair[1], pair[2]) /\ UNCHANGED engineVars
    \/ SeedEngine
    \/ \E batch \in SeedBatches : source_add_rules(batch)
    \/ \E pair \in EngineUnionPool : source_register_union_member(pair[1], pair[2])
    \/ Return

SpecSeed == Init /\ [][NextSeed]_vars

\* What the graph answers to every get_rules_for_output_type and find_path.
Resolution ==
    [rules_for |-> [t \in Types |-> get_rules_for_output_type(t)],
     path |-> [sig \in Signatures |-> [order \in Orders |-> find_path(sig, order)]]]

\* C23: a RuleGraph constructed from another RuleGraph answers every
\* get_rules_for_output_type and every find_path as the graph it was
\* constructed from does at that time, union types with registered members
\* included; and an add_rules or register_union_member on one of the two
\* graphs leaves the other as it was.
C23_SeededGraphResolvesLikeItsSource ==
    [][/\ (last'.op = "RuleGraph" /\ last'.raised = "none") => Resolution' = Resolution
       /\ last'.op \in {"source.add_rules", "source.register_union_member"}
            => UNCHANGED graphVars
       /\ last'.op \in {"add_rules", "register_union_member"} => UNCHANGED source]_vars

\* The rules are carried over: the statement above holds of every graph
\* handed in without union members.
SeededGraphResolvesTheRules ==
    [][/\ (last'.op = "RuleGraph" /\ last'.raised = "none" /\ \A t \in Types : unions[t] = {})
            => Resolution' = Resolution
       /\ last'.op \in {"source.add_rules", "source.register_union_member"}
            => UNCHANGED graphVars
       /\ last'.op \in {"add_rules", "register_union_member"} => UNCHANGED source]_vars

====
